---- MODULE Spec2Model ----
(***************************************************************************)
(* Model of folio_to_lawson.py: FOLIO batch voucher files are turned into  *)
(* a Lawson invoice CSV, a Lawson distrib CSV and a text report.           *)
(*                                                                         *)
(* Python strings that the program slices, pads or splits are sequences of *)
(* one-character strings.  Amounts are integers counting cents ('%.2f' of  *)
(* a two-decimal amount).  A pandas NaN cell is a record with nan = TRUE.  *)
(***************************************************************************)
EXTENDS Integers, Sequences, FiniteSets, TLC

\* ---------------------------------------------------------------- bounds
MaxFiles == 2
MaxVouchers == 3

\* ------------------------------------------------------- string helpers
Digits == <<"0", "1", "2", "3", "4", "5", "6", "7", "8", "9">>

IsDigit(c) == \E i \in 1..10 : Digits[i] = c

DigitVal(c) == (CHOOSE i \in 1..10 : Digits[i] = c) - 1

Abs(n) == IF n < 0 THEN -n ELSE n

\* python: ch * n  (an empty string when n <= 0)
Repeat(ch, n) == IF n <= 0 THEN <<>> ELSE [i \in 1..n |-> ch]

\* python: str(n) for n >= 0
RECURSIVE NatStr(_)
NatStr(n) == IF n < 10 THEN <<Digits[n + 1]>>
             ELSE NatStr(n \div 10) \o <<Digits[(n % 10) + 1]>>

\* python: '%.2f' % x, x given in cents
Fmt2(c) == (IF c < 0 THEN <<"-">> ELSE <<>>)
           \o NatStr(Abs(c) \div 100)
           \o <<".", Digits[((Abs(c) % 100) \div 10) + 1], Digits[(Abs(c) % 10) + 1]>>

\* python: s.rjust(width, fill)
rjust(s, width, fill) == Repeat(fill, width - Len(s)) \o s

\* python: s.startswith(p)
StartsWith(s, p) == Len(s) >= Len(p) /\ SubSeq(s, 1, Len(p)) = p

\* python: s[start:stop] with 0 <= start <= stop
Slice(s, start, stop) ==
    LET hi == IF stop > Len(s) THEN Len(s) ELSE stop
    IN  IF start >= hi THEN <<>> ELSE SubSeq(s, start + 1, hi)

\* python: s[-n:]
LastN(s, n) == IF Len(s) <= n THEN s ELSE SubSeq(s, Len(s) - n + 1, Len(s))

\* python: s.replace(ch, '')
RemoveChar(s, ch) == SelectSeq(s, LAMBDA c : c # ch)

\* python: s.split(sep), sep a single character
RECURSIVE Split(_, _)
Split(s, sep) ==
    IF \A i \in 1..Len(s) : s[i] # sep THEN <<s>>
    ELSE LET k == CHOOSE i \in 1..Len(s) :
                     s[i] = sep /\ \A j \in 1..(i - 1) : s[j] # sep
         IN  <<SubSeq(s, 1, k - 1)>> \o Split(SubSeq(s, k + 1, Len(s)), sep)

Max(S) == CHOOSE m \in S : \A x \in S : x <= m

RECURSIVE SumSeq(_)
SumSeq(s) == IF s = <<>> THEN 0 ELSE Head(s) + SumSeq(Tail(s))

\* ------------------------------------------------------------ input data
\* Character sequences of the literals used as voucher data.
S_MH1001 == <<"M", "H", "1", "0", "0", "1">>
S_1001 == <<"1", "0", "0", "1">>
S_Long16 == <<"1", "2", "3", "4", "5", "6", "7", "8", "9", "0", "1", "2", "3", "4", "5", "6">>
S_MHFit14 == <<"M", "H", "A", "B", "C", "D", "E", "F", "G", "H", "I", "J", "K", "L", "M", "N">>
S_Date == <<"2", "0", "2", "4", "-", "0", "1", "-", "1", "5", "T", "0", "0", ":", "0", "0", ":", "0", "0">>
S_AC_100_05 == <<"1", "0", "0", "_", "0", "5">>
S_AC_100 == <<"1", "0", "0">>
S_AC_200_7 == <<"2", "0", "0", "_", "7">>
S_EAN_5e == <<"1", "1", "-", "2", "2", "-", "3", "3", "-", "4", "4", "5", "6", "-">>
S_EAN_5 == <<"1", "1", "-", "2", "2", "-", "3", "3", "-", "4", "4", "5", "6", "-", "7", "7">>
S_EAN_3 == <<"1", "1", "-", "2", "2", "-", "3", "3">>
S_EAN_1 == <<"1", "1">>

\* a batchedVoucherLines element
Line(amt, ean) == [amount |-> amt, externalAccountNumber |-> ean]

\* the voucher data apart from its status
Payloads ==
    { [accountingCode |-> S_AC_100_05, amount |-> 1250, invoiceDate |-> S_Date,
       vendorInvoiceNo |-> S_MH1001, vendorName |-> <<"A", "c", "m", "e">>, folioInvoiceNo |-> <<"F", "1">>,
       voucherNumber |-> <<"V", "1">>,
       batchedVoucherLines |-> <<Line(1250, S_EAN_5e)>>],
      [accountingCode |-> S_AC_100, amount |-> -300, invoiceDate |-> S_Date,
       vendorInvoiceNo |-> S_1001, vendorName |-> <<"B", "r", "i", "l", "l">>, folioInvoiceNo |-> <<"F", "2">>,
       voucherNumber |-> <<"V", "2">>,
       batchedVoucherLines |-> <<Line(-500, S_EAN_3), Line(200, S_EAN_5)>>],
      [accountingCode |-> S_AC_200_7, amount |-> 500, invoiceDate |-> S_Date,
       vendorInvoiceNo |-> S_Long16, vendorName |-> <<"C", "a", "i", "r", "n">>, folioInvoiceNo |-> <<"F", "3">>,
       voucherNumber |-> <<"V", "3">>,
       batchedVoucherLines |-> <<Line(400, S_EAN_1), Line(100, S_EAN_3)>>],
      [accountingCode |-> S_AC_100, amount |-> 700, invoiceDate |-> S_Date,
       vendorInvoiceNo |-> S_MHFit14, vendorName |-> <<"D", "o", "v", "e", "r">>, folioInvoiceNo |-> <<"F", "4">>,
       voucherNumber |-> <<"V", "4">>,
       batchedVoucherLines |-> <<>>] }

Statuses == {"Open", "Cancelled"}

\* an element of the batchedVouchers list
Vouchers ==
    { [status |-> st, accountingCode |-> p.accountingCode, amount |-> p.amount,
       invoiceDate |-> p.invoiceDate, vendorInvoiceNo |-> p.vendorInvoiceNo,
       vendorName |-> p.vendorName, folioInvoiceNo |-> p.folioInvoiceNo,
       voucherNumber |-> p.voucherNumber,
       batchedVoucherLines |-> p.batchedVoucherLines] : st \in Statuses, p \in Payloads }

\* an input JSON document without a batchedVouchers list
MalformedDocument == [malformed |-> TRUE, batchedVouchers |-> <<>>]

\* the directory of Len(sizes) documents that holds the vouchers of flat in
\* order, sizes[i] of them in document i; a document of size 0 is the malformed one
RECURSIVE Offset(_, _)
Offset(sizes, i) == IF i = 1 THEN 0 ELSE Offset(sizes, i - 1) + sizes[i - 1]

Listing(flat, sizes) ==
    [i \in 1..Len(sizes) |->
        IF sizes[i] = 0 THEN MalformedDocument
        ELSE [malformed |-> FALSE,
              batchedVouchers |-> SubSeq(flat, Offset(sizes, i) + 1,
                                         Offset(sizes, i) + sizes[i])]]

\* ------------------------------------------------------ field formatters
\* lambda x: x[2:] if x.startswith('MH') else x
StripPrefix(x) == IF StartsWith(x, <<"M", "H">>) THEN Slice(x, 2, Len(x)) ELSE x

\* .str.slice(start=0,stop=10).str.replace('-','')
CompactDate(d) == RemoveChar(Slice(d, 0, 10), "-")

\* the padding computed from the length of the VIN alone
merge_vin_and_inv_date_vin_only(row, field_length) ==
    LET space_count == field_length - Len(row.vendorInvoiceNo)
    IN  row.vendorInvoiceNo \o Repeat(" ", space_count) \o row.invoiceDate

merge_vin_and_inv_date(row, field_length) ==
    LET space_count == field_length - (Len(row.vendorInvoiceNo) + Len(row.invoiceDate))
    IN  row.vendorInvoiceNo \o Repeat(" ", space_count) \o row.invoiceDate

add_space_to_vin(row, field_length) ==
    LET space_count == field_length - Len(row.vendorInvoiceNo)
    IN  row.vendorInvoiceNo \o Repeat(" ", space_count)

\* re.search('_\d{2}$', accountingCode)
extract_ac_suffix(row) ==
    LET ac == row.accountingCode
        n == Len(ac)
    IN  IF n >= 3 /\ ac[n - 2] = "_" /\ IsDigit(ac[n - 1]) /\ IsDigit(ac[n])
        THEN <<ac[n]>>
        ELSE <<" ", " ">>

\* ' ' + accountingCode.str.split('_').str[0]
AccountingCodePrefix(ac) == <<" ">> \o Split(ac, "_")[1]

\* add_quotes, one cell
Quote(cell) == <<"\"">> \o cell \o <<"\"">>

\* the frame with the status filter left out
NotCancelled_unfiltered(df) == df

\* df[df.status != 'Cancelled']
NotCancelled(df) == SelectSeq(df, LAMBDA v : v.status # "Cancelled")

\* datetime.date.today(), as one token
current_date == "today"

\* ------------------------------------------------- create_invoice_csv
\* the columns of one data row of the invoice file that are not empty
InvoiceRow(v) ==
    LET row == [vendorInvoiceNo |-> StripPrefix(v.vendorInvoiceNo),
                invoiceDate |-> CompactDate(v.invoiceDate),
                accountingCode |-> v.accountingCode]
    IN  [a |-> Quote(<<"1", "0">>),
         accountingCode |-> Quote(AccountingCodePrefix(v.accountingCode)),
         vendorInvoiceNo |-> Quote(add_space_to_vin(row, 15)),
         f |-> Quote(<<"L", "B", "R">>),
         g |-> Quote(<<"1", "0">>),
         creditdebit |-> Quote(IF v.amount < 0 THEN <<"C">> ELSE <<>>),
         invoiceDate |-> row.invoiceDate,
         VINandInvDate |-> Quote(merge_vin_and_inv_date(row, 22)),
         amount |-> Fmt2(v.amount),
         accountingCodeSuffix |-> Quote(extract_ac_suffix(row))]

\* the total without abs(), as the older script computed it
InvoiceTotalAmount_signed(df) == Fmt2(SumSeq([i \in 1..Len(df) |-> df[i].amount]))

\* total_amount = '%.2f' % abs(df['amount'].sum())
InvoiceTotalAmount(df) == Fmt2(Abs(SumSeq([i \in 1..Len(df) |-> df[i].amount])))

InvoiceHeader(df) ==
    <<"\"$$$\"", "\"LibraryFolio\"", current_date, "\"FOLIO UPLOAD FOR APCINVOICE\"",
      "\"Y\"", "\"AP\"", rjust(NatStr(Len(df)), 5, "0"),
      rjust(InvoiceTotalAmount(df), 10, "0"), "\"SCOLGLAZ\"">>

\* the iteration without the 'if df.empty: continue' of lines 169-171
InvoiceFile_no_skip(batchedVouchers) ==
    LET df == NotCancelled(batchedVouchers)
    IN  [skipped |-> FALSE, header |-> InvoiceHeader(df),
         rows |-> [i \in 1..Len(df) |-> InvoiceRow(df[i])]]

\* one iteration of the loop of create_invoice_csv over a well-formed document:
\* skipped when no voucher survives, else the text of the file written
InvoiceFile(batchedVouchers) ==
    LET df == NotCancelled(batchedVouchers)
    IN  IF df = <<>>
        THEN [skipped |-> TRUE, header |-> <<>>, rows |-> <<>>]
        ELSE [skipped |-> FALSE, header |-> InvoiceHeader(df),
              rows |-> [i \in 1..Len(df) |-> InvoiceRow(df[i])]]

\* ------------------------------------------------- create_distrib_csv
\* df.explode('batchedVoucherLines') of one voucher, joined with
\* json_normalize: one row per line, one all-NaN row for an empty list
\* (explode turns an empty list into NaN, which json_normalize of pandas 1.3
\* and later turns into a row without values)
ExplodeVoucher(v) ==
    IF v.batchedVoucherLines = <<>>
    THEN << [accountingCode |-> v.accountingCode, invoiceDate |-> v.invoiceDate,
             vendorInvoiceNo |-> v.vendorInvoiceNo, nan |-> TRUE,
             amount |-> 0, externalAccountNumber |-> <<>>] >>
    ELSE [k \in 1..Len(v.batchedVoucherLines) |->
            [accountingCode |-> v.accountingCode, invoiceDate |-> v.invoiceDate,
             vendorInvoiceNo |-> v.vendorInvoiceNo, nan |-> FALSE,
             amount |-> v.batchedVoucherLines[k].amount,
             externalAccountNumber |-> v.batchedVoucherLines[k].externalAccountNumber]]

RECURSIVE Explode(_)
Explode(df) == IF df = <<>> THEN <<>> ELSE ExplodeVoucher(Head(df)) \o Explode(Tail(df))

\* df.groupby('vendorInvoiceNo').cumcount() + 1, for row i of the exploded frame
VINIndex(df, i) ==
    Cardinality({j \in 1..i : df[j].vendorInvoiceNo = df[i].vendorInvoiceNo})

\* the number of columns of str.split('-', expand=True): the longest split
SplitColumns(df) ==
    Max({0} \cup {Len(Split(df[i].externalAccountNumber, "-")) :
                     i \in {j \in 1..Len(df) : ~df[j].nan}})

\* str.split('-', expand=True).fillna(''): cell n of the split of row r
EAN(r, n) ==
    LET parts == Split(r.externalAccountNumber, "-")
    IN  IF r.nan \/ n > Len(parts) THEN <<>> ELSE parts[n]

\* total_amount = '%.2f' % abs(df['amount'].sum()), NaN cells skipped
DistribTotalAmount(df) ==
    Fmt2(Abs(SumSeq([i \in 1..Len(df) |-> IF df[i].nan THEN 0 ELSE df[i].amount])))

DistribHeader(df) ==
    <<"\"$$$\"", "\"LibraryFolio\"", current_date, "\"FOLIO UPLOAD FOR APCDISTRIB\"",
      "\"Y\"", "\"AP\"", rjust(NatStr(Len(df)), 5, "0"),
      rjust(DistribTotalAmount(df), 10, "0"), "\"SCOLGLAZ\"">>

\* the columns of data row i of the distrib file that are not empty
DistribRow(df, i) ==
    LET r == df[i]
        row == [vendorInvoiceNo |-> StripPrefix(r.vendorInvoiceNo),
                invoiceDate |-> CompactDate(r.invoiceDate)]
        ean5 == EAN(r, 5)
    IN  [a |-> Quote(<<"1", "0">>),
         accountingCode |-> Quote(AccountingCodePrefix(r.accountingCode)),
         vendorInvoiceNo |-> Quote(add_space_to_vin(row, 14)),
         VINIndex |-> VINIndex(df, i),
         amount |-> IF r.nan THEN <<>> ELSE Fmt2(r.amount),
         e |-> Quote(<<"1", "0">>),
         EAN2 |-> Quote(EAN(r, 2)),
         EAN3 |-> Quote(EAN(r, 3)),
         EAN4 |-> Quote(LastN(EAN(r, 4), 2)),
         VINandInvDate |-> Quote(merge_vin_and_inv_date(row, 23)),
         EAN5 |-> Quote(IF ean5 = <<>> THEN Repeat(" ", 6) ELSE ean5)]

\* one iteration of the loop of create_distrib_csv over a well-formed document:
\* skipped when no voucher survives; KeyError when the joined frame has no
\* 'amount' column (no surviving voucher has a line) or no 'EAN4' column
\* (no account number has a fourth segment); else the text of the file written
DistribFile(batchedVouchers) ==
    LET survivors == NotCancelled(batchedVouchers)
        df == Explode(survivors)
    IN  IF survivors = <<>>
        THEN [skipped |-> TRUE, error |-> "", header |-> <<>>, rows |-> <<>>]
        ELSE IF \A i \in 1..Len(df) : df[i].nan
        THEN [skipped |-> FALSE, error |-> "KeyError: 'amount'", header |-> <<>>, rows |-> <<>>]
        ELSE IF SplitColumns(df) < 4
        THEN [skipped |-> FALSE, error |-> "KeyError: 'EAN4'", header |-> <<>>, rows |-> <<>>]
        ELSE [skipped |-> FALSE, error |-> "", header |-> DistribHeader(df),
              rows |-> [i \in 1..Len(df) |-> DistribRow(df, i)]]

\* ------------------------------------------------- create_email_report
\* one element of report_list: a fixed text and the formatted value in it
ReportLine(label, value) == [label |-> label, value |-> value]

\* f'{s:<35}'
ljust(s, width) == s \o Repeat(" ", width - Len(s))

\* the lines appended for a voucher that is not cancelled, up to '\n\n'
VoucherBlock(voucher) ==
    LET vin == voucher.vendorInvoiceNo
        vendor_inv_number == IF StartsWith(vin, <<"M", "H">>) THEN Slice(vin, 2, Len(vin)) ELSE vin
        lines == voucher.batchedVoucherLines
    IN  << ReportLine("******** INVOICE REPORT TOTALED BY EXTERNAL FUND CODE ********", <<>>),
           ReportLine("Vendor Invoice Number:", vendor_inv_number),
           ReportLine("Vendor:", voucher.vendorName),
           ReportLine("Accounting Code:", voucher.accountingCode),
           ReportLine("FOLIO Voucher Number:", voucher.voucherNumber),
           ReportLine("FOLIO Invoice Number:", voucher.folioInvoiceNo),
           ReportLine("Report Date:", <<current_date>>),
           ReportLine("Invoice Date:", Slice(voucher.invoiceDate, 0, 10)),
           ReportLine("Invoice Total:", Fmt2(voucher.amount)),
           ReportLine("Credit/Debit:", IF voucher.amount >= 0 THEN <<"D">> ELSE <<"C">>),
           ReportLine("External Fund                       Amount", <<>>),
           ReportLine("------------------------------      ------------", <<>>) >>
        \o [k \in 1..Len(lines) |->
              ReportLine("", ljust(lines[k].externalAccountNumber, 35) \o <<" ">>
                             \o Fmt2(lines[k].amount))]
        \o << ReportLine("\n\n", <<>>) >>

\* the two lines of the batch summary
SummaryLines(invoice_count, grand_total) ==
    << ReportLine("Total number of invoices:", NatStr(invoice_count)),
       ReportLine("Grand total amount:", Fmt2(grand_total)) >>

\* the body of 'for voucher in batch', from the locals st of the file's iteration
ReportVoucherStep(st, voucher, filename) ==
    IF voucher.status = "Cancelled"
    THEN st
    ELSE LET report_list == st.report_list \o VoucherBlock(voucher)
                            \o SummaryLines(st.invoice_count + 1, st.grand_total + voucher.amount)
         IN  [report_list |-> report_list,
              grand_total |-> st.grand_total + voucher.amount,
              invoice_count |-> st.invoice_count + 1,
              report |-> <<report_list>>,
              appended |-> st.appended \o <<filename>>]

\* the locals after the first n vouchers of the batch; report holds the text of
\* the report file once written, appended the filenames added to output_file_list
RECURSIVE ReportLoop(_, _, _)
ReportLoop(batch, n, filename) ==
    IF n = 0
    THEN [report_list |-> <<>>, grand_total |-> 0, invoice_count |-> 0,
          report |-> <<>>, appended |-> <<>>]
    ELSE ReportVoucherStep(ReportLoop(batch, n - 1, filename), batch[n], filename)

\* ------------------------------------------------------------- the run
VARIABLES
    directory,        \* the batch voucher documents of the working directory, by name
    pc,               \* the statement of main() that runs next
    folio_file_list,  \* main(): the names returned by get_folio_files
    index,            \* the enumerate() index of the loop of the running function
    invoice_files,    \* main(): result of create_invoice_csv (output_file_list meanwhile)
    distrib_files,    \* main(): result of create_distrib_csv (output_file_list meanwhile)
    report_files,     \* main(): result of create_email_report (output_file_list meanwhile)
    files_to_upload,  \* main(): invoice_files + distrib_files + report_files
    disk,             \* the text of every output file written, by filename
    error,            \* the uncaught exception that ended the run at pc, "" if none
    archived          \* the names archive_used_json has renamed to old.<name>

vars == <<directory, pc, folio_file_list, index, invoice_files, distrib_files,
          report_files, files_to_upload, disk, error, archived>>

\* the names output_to_csv and create_email_report give their files
InvoiceName(i) == <<"ii-folioap-apcinvoice", i>>
DistribName(i) == <<"ii-folioap-apcdistrib", i>>
ReportName(i) == <<"voucher_report", i>>

\* open(filename, 'w') ... write
WriteFile(d, filename, text) == (filename :> text) @@ d

\* the document the loop reads at its current index
CurrentDocument == directory[folio_file_list[index + 1]]

Init ==
    /\ \E total \in 0..MaxVouchers, n \in 0..MaxFiles :
         \E flat \in [1..total -> Vouchers], sizes \in [1..n -> 0..total] :
            /\ SumSeq(sizes) = total
            /\ directory = Listing(flat, sizes)
    /\ pc = "get_folio_files"
    /\ folio_file_list = <<>>
    /\ index = 0
    /\ invoice_files = <<>>
    /\ distrib_files = <<>>
    /\ report_files = <<>>
    /\ files_to_upload = <<>>
    /\ disk = <<>>
    /\ error = ""
    /\ archived = {}

\* main: folio_file_list = get_folio_files(load_method), load_method 'local'
GetFolioFiles ==
    /\ error = ""
    /\ pc = "get_folio_files"
    /\ IF Len(directory) > 0
       THEN /\ folio_file_list' = [i \in 1..Len(directory) |-> i]
            /\ pc' = "create_invoice_csv"
       ELSE \* FileNotFoundError: "No new voucher files found.", sys.exit()
            /\ folio_file_list' = folio_file_list
            /\ pc' = "exit"
    /\ UNCHANGED <<directory, index, invoice_files, distrib_files, report_files,
                   files_to_upload, disk, error, archived>>

\* create_invoice_csv: one iteration of 'for index,file in enumerate(bv_files)'
CreateInvoiceCsv ==
    /\ error = ""
    /\ pc = "create_invoice_csv"
    /\ index < Len(folio_file_list)
    /\ IF CurrentDocument.malformed
       THEN /\ pc' = pc
            /\ error' = "KeyError: 'batchedVouchers'"
            /\ UNCHANGED <<index, invoice_files, disk>>
       ELSE LET out == InvoiceFile(CurrentDocument.batchedVouchers)
            IN  /\ IF out.skipped
                   THEN UNCHANGED <<invoice_files, disk>>
                   ELSE /\ disk' = WriteFile(disk, InvoiceName(index),
                                             [header |-> out.header, rows |-> out.rows])
                        /\ invoice_files' = Append(invoice_files, InvoiceName(index))
                /\ index' = index + 1
                /\ UNCHANGED <<pc, error>>
    /\ UNCHANGED <<directory, folio_file_list, distrib_files, report_files,
                   files_to_upload, archived>>

\* create_invoice_csv: return output_file_list
ReturnInvoiceFiles ==
    /\ error = ""
    /\ pc = "create_invoice_csv"
    /\ index = Len(folio_file_list)
    /\ pc' = "create_distrib_csv"
    /\ index' = 0
    /\ UNCHANGED <<directory, folio_file_list, invoice_files, distrib_files, report_files,
                   files_to_upload, disk, error, archived>>

\* create_distrib_csv: one iteration of 'for index, file in enumerate(bv_files)'
CreateDistribCsv ==
    /\ error = ""
    /\ pc = "create_distrib_csv"
    /\ index < Len(folio_file_list)
    /\ IF CurrentDocument.malformed
       THEN /\ pc' = pc
            /\ error' = "KeyError: 'batchedVouchers'"
            /\ UNCHANGED <<index, distrib_files, disk>>
       ELSE LET out == DistribFile(CurrentDocument.batchedVouchers)
            IN  IF out.error # ""
                THEN /\ pc' = pc
                     /\ error' = out.error
                     /\ UNCHANGED <<index, distrib_files, disk>>
                ELSE /\ IF out.skipped
                        THEN UNCHANGED <<distrib_files, disk>>
                        ELSE /\ disk' = WriteFile(disk, DistribName(index),
                                                  [header |-> out.header, rows |-> out.rows])
                             /\ distrib_files' = Append(distrib_files, DistribName(index))
                     /\ index' = index + 1
                     /\ UNCHANGED <<pc, error>>
    /\ UNCHANGED <<directory, folio_file_list, invoice_files, report_files,
                   files_to_upload, archived>>

\* create_distrib_csv: return output_file_list
ReturnDistribFiles ==
    /\ error = ""
    /\ pc = "create_distrib_csv"
    /\ index = Len(folio_file_list)
    /\ pc' = "create_email_report"
    /\ index' = 0
    /\ UNCHANGED <<directory, folio_file_list, invoice_files, distrib_files, report_files,
                   files_to_upload, disk, error, archived>>

\* create_email_report: one iteration of 'for index,file in enumerate(bv_files)'
CreateEmailReport ==
    /\ error = ""
    /\ pc = "create_email_report"
    /\ index < Len(folio_file_list)
    /\ IF CurrentDocument.malformed
       THEN /\ pc' = pc
            /\ error' = "TypeError: 'NoneType' object is not iterable"
            /\ UNCHANGED <<index, report_files, disk>>
       ELSE LET batch == CurrentDocument.batchedVouchers
                st == ReportLoop(batch, Len(batch), ReportName(index))
            IN  /\ disk' = IF st.report = <<>> THEN disk
                           ELSE WriteFile(disk, ReportName(index), st.report[1])
                /\ report_files' = report_files \o st.appended
                /\ index' = index + 1
                /\ UNCHANGED <<pc, error>>
    /\ UNCHANGED <<directory, folio_file_list, invoice_files, distrib_files,
                   files_to_upload, archived>>

\* main: files_to_upload = ...; archive_used_json(folio_file_list)
ArchiveUsedJson ==
    /\ error = ""
    /\ pc = "create_email_report"
    /\ index = Len(folio_file_list)
    /\ files_to_upload' = invoice_files \o distrib_files \o report_files
    /\ archived' = {folio_file_list[i] : i \in 1..Len(folio_file_list)}
    /\ pc' = "done"
    /\ UNCHANGED <<directory, folio_file_list, index, invoice_files, distrib_files,
                   report_files, disk, error>>

Next ==
    \/ GetFolioFiles
    \/ CreateInvoiceCsv
    \/ ReturnInvoiceFiles
    \/ CreateDistribCsv
    \/ ReturnDistribFiles
    \/ CreateEmailReport
    \/ ArchiveUsedJson

Spec == Init /\ [][Next]_vars

\* ---------------------------------------------------- reading the outputs
\* the cell without the quotation marks add_quotes put around it
Unquote(cell) == SubSeq(cell, 2, Len(cell) - 1)

RECURSIVE NatVal(_)
NatVal(s) == IF s = <<>> THEN 0
             ELSE 10 * NatVal(SubSeq(s, 1, Len(s) - 1)) + DigitVal(s[Len(s)])

\* the cents a cell written with two decimal places stands for
ParseCents(s) ==
    IF s # <<>> /\ s[1] = "-" THEN 0 - NatVal(RemoveChar(Tail(s), "."))
    ELSE NatVal(RemoveChar(s, "."))

\* the positions of the documents whose iteration in the named function is over
Finished(function) ==
    { i \in 1..Len(folio_file_list) :
        \/ pc = function /\ i <= index
        \/ /\ function = "create_invoice_csv"
           /\ pc \in {"create_distrib_csv", "create_email_report", "done"}
        \/ /\ function = "create_distrib_csv"
           /\ pc \in {"create_email_report", "done"}
        \/ /\ function = "create_email_report"
           /\ pc = "done" }

InvoicesWritten == { i \in 1..Len(directory) : InvoiceName(i - 1) \in DOMAIN disk }
DistribsWritten == { i \in 1..Len(directory) : DistribName(i - 1) \in DOMAIN disk }
ReportsWritten == { i \in 1..Len(directory) : ReportName(i - 1) \in DOMAIN disk }

InvoiceOf(i) == disk[InvoiceName(i - 1)]
DistribOf(i) == disk[DistribName(i - 1)]
ReportOf(i) == disk[ReportName(i - 1)]

\* the amounts, in cents, of the data rows of a CSV file
RowAmounts(file) == [k \in 1..Len(file.rows) |-> ParseCents(file.rows[k].amount)]

AbsAll(amounts) == [k \in 1..Len(amounts) |-> Abs(amounts[k])]

\* ------------------------------------------------------------------ C1
\* C1 as stated: the total field of the control header of every invoice file
\* is the sum of the absolute values of the amounts of its data rows, with two
\* decimal places, padded with zeros on the left to width 10.
C1_TotalIsSumOfAbsoluteRowAmounts ==
    \A i \in InvoicesWritten :
        InvoiceOf(i).header[8] = rjust(Fmt2(SumSeq(AbsAll(RowAmounts(InvoiceOf(i))))), 10, "0")

\* C1 amended: the total field of the control header of every invoice file is
\* the absolute value of the signed sum of the amounts of its data rows, with
\* two decimal places, padded with zeros on the left to width 10.
C1_TotalIsAbsoluteOfRowSum ==
    \A i \in InvoicesWritten :
        InvoiceOf(i).header[8] = rjust(Fmt2(Abs(SumSeq(RowAmounts(InvoiceOf(i))))), 10, "0")

\* an invoice file whose data rows mix a negative and a non-negative amount
C1_Witness ==
    \E i \in InvoicesWritten :
        /\ \E k \in 1..Len(InvoiceOf(i).rows) : RowAmounts(InvoiceOf(i))[k] < 0
        /\ \E k \in 1..Len(InvoiceOf(i).rows) : RowAmounts(InvoiceOf(i))[k] >= 0

\* ------------------------------------------------------------------ C2
\* C2: in every distrib file the VINIndex of a row is the number of rows, from
\* the first row up to and including it, that carry the same vendorInvoiceNo
\* after the 'MH' prefix is stripped (the vendorInvoiceNo cell of the file).
C2_VINIndexCountsStrippedVIN ==
    \A i \in DistribsWritten :
        LET rows == DistribOf(i).rows
        IN  \A k \in 1..Len(rows) :
                rows[k].VINIndex =
                    Cardinality({j \in 1..k : rows[j].vendorInvoiceNo = rows[k].vendorInvoiceNo})

\* ------------------------------------------------------------------ C3
\* C3: no data row of an output file has a VINandInvDate that is longer or
\* shorter than the target width, 22 in invoice files and 23 in distrib files.
C3_NoRowOffTheTargetWidth ==
    /\ \A i \in InvoicesWritten :
           \A k \in 1..Len(InvoiceOf(i).rows) :
               Len(Unquote(InvoiceOf(i).rows[k].VINandInvDate)) = 22
    /\ \A i \in DistribsWritten :
           \A k \in 1..Len(DistribOf(i).rows) :
               Len(Unquote(DistribOf(i).rows[k].VINandInvDate)) = 23

\* ------------------------------------------------------------------ C4
\* the batch without its voucher at position k
RemoveAt(batch, k) == SubSeq(batch, 1, k - 1) \o SubSeq(batch, k + 1, Len(batch))

\* the positions of the cancelled vouchers of a batch
CancelledIn(batch) == { k \in 1..Len(batch) : batch[k].status = "Cancelled" }

\* the vouchers of a batch that are not cancelled, in batch order
RECURSIVE Survivors(_)
Survivors(batch) ==
    IF batch = <<>> THEN <<>>
    ELSE IF Head(batch).status = "Cancelled" THEN Survivors(Tail(batch))
    ELSE <<Head(batch)>> \o Survivors(Tail(batch))

\* the number of rows a voucher has in the exploded frame of the distrib file
ExplodedRows(v) == IF v.batchedVoucherLines = <<>> THEN 1 ELSE Len(v.batchedVoucherLines)

\* the sum of the amounts of the lines of a voucher
LineSum(v) ==
    SumSeq([k \in 1..Len(v.batchedVoucherLines) |-> v.batchedVoucherLines[k].amount])

\* what each function leaves for document i: the file written, or none
InvoiceOutcome(i) == IF i \in InvoicesWritten THEN <<InvoiceOf(i)>> ELSE <<>>
DistribOutcome(i) == IF i \in DistribsWritten THEN <<DistribOf(i)>> ELSE <<>>
ReportOutcome(i) == IF i \in ReportsWritten THEN <<ReportOf(i)>> ELSE <<>>

\* what each function leaves for a batch, computed from the batch
InvoiceExpected(batch) ==
    LET out == InvoiceFile(batch)
    IN  IF out.skipped THEN <<>> ELSE << [header |-> out.header, rows |-> out.rows] >>
DistribExpected(batch) ==
    LET out == DistribFile(batch)
    IN  IF out.skipped \/ out.error # "" THEN <<>>
        ELSE << [header |-> out.header, rows |-> out.rows] >>
ReportExpected(batch, i) ==
    LET st == ReportLoop(batch, Len(batch), ReportName(i - 1))
    IN  IF st.report = <<>> THEN <<>> ELSE <<st.report[1]>>

\* C4: a cancelled voucher adds nothing to any output. For every document
\* whose iteration is over: the invoice file has as many rows as the batch has
\* vouchers that are not cancelled, and its count and total fields are built
\* from those vouchers alone; the distrib file has only the rows of the lines
\* of those vouchers, and its count and total fields are built from them
\* alone; the last summary of the report counts and totals those vouchers
\* alone; and each output is the output of the batch without the cancelled
\* voucher, for every cancelled voucher of a batch of two or more vouchers.
C4_CancelledVoucherContributesNothing ==
    \A i \in 1..Len(folio_file_list) :
        LET batch == directory[i].batchedVouchers
            kept == Survivors(batch)
        IN  /\ (i \in Finished("create_invoice_csv") /\ i \in InvoicesWritten) =>
                  /\ Len(InvoiceOf(i).rows) = Len(kept)
                  /\ InvoiceOf(i).header[7] = rjust(NatStr(Len(kept)), 5, "0")
                  /\ InvoiceOf(i).header[8] =
                        rjust(Fmt2(Abs(SumSeq([k \in 1..Len(kept) |-> kept[k].amount]))), 10, "0")
            /\ (i \in Finished("create_distrib_csv") /\ i \in DistribsWritten) =>
                  LET n == SumSeq([k \in 1..Len(kept) |-> ExplodedRows(kept[k])])
                  IN  /\ Len(DistribOf(i).rows) = n
                      /\ DistribOf(i).header[7] = rjust(NatStr(n), 5, "0")
                      /\ DistribOf(i).header[8] =
                            rjust(Fmt2(Abs(SumSeq([k \in 1..Len(kept) |-> LineSum(kept[k])]))),
                                  10, "0")
            /\ (i \in Finished("create_email_report") /\ i \in ReportsWritten) =>
                  LET text == ReportOf(i)
                  IN  SubSeq(text, Len(text) - 1, Len(text)) =
                          SummaryLines(Len(kept),
                                       SumSeq([k \in 1..Len(kept) |-> kept[k].amount]))
            /\ \A k \in CancelledIn(batch) :
                  Len(batch) > 1 =>
                      /\ i \in Finished("create_invoice_csv") =>
                            InvoiceOutcome(i) = InvoiceExpected(RemoveAt(batch, k))
                      /\ i \in Finished("create_distrib_csv") =>
                            DistribOutcome(i) = DistribExpected(RemoveAt(batch, k))
                      /\ i \in Finished("create_email_report") =>
                            ReportOutcome(i) = ReportExpected(RemoveAt(batch, k), i)

\* a finished run with a batch of a cancelled voucher among surviving ones that
\* got its invoice file, its distrib file and its report
C4_Witness ==
    /\ pc = "done"
    /\ \E i \in InvoicesWritten \cap DistribsWritten \cap ReportsWritten :
           /\ CancelledIn(directory[i].batchedVouchers) # {}
           /\ Len(Survivors(directory[i].batchedVouchers)) >= 2

\* ------------------------------------------------------------------ C5
\* the lines of the vouchers of a batch, in order
RECURSIVE AllLines(_)
AllLines(batch) ==
    IF batch = <<>> THEN <<>>
    ELSE Head(batch).batchedVoucherLines \o AllLines(Tail(batch))

\* segment n of an account number, the empty string when it has fewer segments
Segment(ean, n) == IF n <= Len(Split(ean, "-")) THEN Split(ean, "-")[n] ELSE <<>>

\* the positions of the documents whose iteration in create_distrib_csv has run,
\* to its end or to an exception
DistribTried ==
    Finished("create_distrib_csv")
    \cup { i \in 1..Len(folio_file_list) :
             pc = "create_distrib_csv" /\ error # "" /\ i = index + 1 }

\* C5: for every batch whose surviving vouchers all have lines, the distrib
\* file is produced without error, and each of its rows carries the segments
\* of its line's externalAccountNumber split on '-': EAN2 and EAN3 (empty when
\* missing), EAN4 cut to its last 2 characters, EAN5 or 6 spaces when empty.
C5_SegmentsSplitWithoutError ==
    \A i \in DistribTried :
        LET kept == Survivors(directory[i].batchedVouchers)
            lines == AllLines(kept)
        IN  (/\ ~directory[i].malformed
             /\ kept # <<>>
             /\ \A k \in 1..Len(kept) : kept[k].batchedVoucherLines # <<>>)
            => /\ i \in DistribsWritten
               /\ Len(DistribOf(i).rows) = Len(lines)
               /\ \A k \in 1..Len(lines) :
                     LET ean == lines[k].externalAccountNumber
                         row == DistribOf(i).rows[k]
                     IN  /\ row.EAN2 = Quote(Segment(ean, 2))
                         /\ row.EAN3 = Quote(Segment(ean, 3))
                         /\ row.EAN4 = Quote(LastN(Segment(ean, 4), 2))
                         /\ row.EAN5 = Quote(IF Segment(ean, 5) = <<>>
                                             THEN <<" ", " ", " ", " ", " ", " ">>
                                             ELSE Segment(ean, 5))

\* ------------------------------------------------------------------ C6
\* the blocks of the vouchers of a batch, in order
RECURSIVE Blocks(_)
Blocks(batch) ==
    IF batch = <<>> THEN <<>> ELSE VoucherBlock(Head(batch)) \o Blocks(Tail(batch))

\* C6: the report of a batch is one block per surviving voucher, in batch
\* order, followed by exactly one batch summary: the number of surviving
\* vouchers and the signed sum of their amounts.
C6_BlocksThenOneSummary ==
    \A i \in Finished("create_email_report") \cap ReportsWritten :
        LET kept == Survivors(directory[i].batchedVouchers)
        IN  ReportOf(i) =
                Blocks(kept)
                \o SummaryLines(Len(kept), SumSeq([k \in 1..Len(kept) |-> kept[k].amount]))

\* ------------------------------------------------------------------ C7
\* C7: a run that ended, normally or at a malformed document, has written the
\* invoice file, the distrib file and the report of every well-formed document
\* with a surviving voucher (whose own distrib frame raises no error).
C7_MalformedFileAloneIsGivenUp ==
    (\/ pc = "done"
     \/ error = "KeyError: 'batchedVouchers'"
     \/ error = "TypeError: 'NoneType' object is not iterable")
    => \A i \in 1..Len(directory) :
           (/\ ~directory[i].malformed
            /\ Survivors(directory[i].batchedVouchers) # <<>>
            /\ DistribFile(directory[i].batchedVouchers).error = "")
           => i \in InvoicesWritten \cap DistribsWritten \cap ReportsWritten

\* ------------------------------------------------------------------ C8
\* the elements of a sequence
Range(seq) == { seq[k] : k \in 1..Len(seq) }

\* the positions of the well-formed documents whose vouchers are all cancelled
AllCancelled ==
    { i \in 1..Len(directory) :
        ~directory[i].malformed /\ Survivors(directory[i].batchedVouchers) = <<>> }

\* C8: for a batch in which every voucher is cancelled no invoice file, no
\* distrib file and no report file is ever written, no function returns a
\* filename for it, and the run does not end at it: a finished run that held
\* such a batch has written the three files of every batch with a survivor.
C8_AllCancelledBatchWritesNothing ==
    /\ \A i \in AllCancelled :
          /\ i \notin InvoicesWritten \cup DistribsWritten \cup ReportsWritten
          /\ {InvoiceName(i - 1), DistribName(i - 1), ReportName(i - 1)}
             \cap (Range(invoice_files) \cup Range(distrib_files)
                   \cup Range(report_files) \cup Range(files_to_upload)) = {}
          /\ ~(error # "" /\ index + 1 = i)
    /\ (pc = "done" /\ AllCancelled # {}) =>
          \A j \in 1..Len(directory) :
              Survivors(directory[j].batchedVouchers) # <<>> =>
                  j \in InvoicesWritten \cap DistribsWritten \cap ReportsWritten

\* a finished run over a batch of cancelled vouchers only and a later batch
\* that got its three files
C8_Witness ==
    /\ pc = "done"
    /\ \E i \in AllCancelled :
          \E j \in InvoicesWritten \cap DistribsWritten \cap ReportsWritten : i < j

\* ------------------------------------------------------------------ C9
\* cell is vin, then spaces only, then date, and is width characters long
WellMerged(cell, vin, date, width) ==
    /\ Len(cell) = width
    /\ SubSeq(cell, 1, Len(vin)) = vin
    /\ SubSeq(cell, width - Len(date) + 1, width) = date
    /\ \A x \in (Len(vin) + 1)..(width - Len(date)) : cell[x] = " "

\* the stripped VIN and the 8-digit date fit the width
Fits(v, width) == Len(StripPrefix(v.vendorInvoiceNo)) + 8 <= width

RECURSIVE ReportNamesFrom(_)
ReportNamesFrom(i) ==
    IF i > Len(directory) THEN <<>>
    ELSE (IF Survivors(directory[i].batchedVouchers) # <<>>
          THEN <<ReportName(i - 1)>> ELSE <<>>) \o ReportNamesFrom(i + 1)

\* C10: the list create_email_report returns holds exactly one filename for
\* each batch with a surviving voucher and none for a batch without.
C10_OneReportNamePerBatch ==
    pc = "done" => report_files = ReportNamesFrom(1)


\* ----------------------------------------------------------------- C11
\* the number of lines of the vouchers of a batch
LineCount(batch) == SumSeq([k \in 1..Len(batch) |-> Len(batch[k].batchedVoucherLines)])

\* C11: in every distrib file the number of data rows and the rowCount field
\* of the control header both are the sum of the numbers of lines of the
\* surviving vouchers of the batch, and the total field is built from those
\* lines: a surviving voucher without lines adds no row and nothing to either.
C11_RowCountIsSumOfLines ==
    \A i \in DistribsWritten :
        LET kept == Survivors(directory[i].batchedVouchers)
        IN  /\ Len(DistribOf(i).rows) = LineCount(kept)
            /\ DistribOf(i).header[7] = rjust(NatStr(LineCount(kept)), 5, "0")
            /\ DistribOf(i).header[8] =
                  rjust(Fmt2(Abs(SumSeq([k \in 1..Len(kept) |-> LineSum(kept[k])]))), 10, "0")

====
